---- MODULE Spec2Model ----
(***************************************************************************)
(* Model of golicense's concurrent license-resolution engine               *)
(* (src/main.go, realMain and readFile).                                   *)
(*                                                                         *)
(* The main goroutine walks the module list, starts one goroutine per      *)
(* module and waits for all of them; each goroutine acquires a semaphore   *)
(* slot, consults the cache (when -cache is given), calls license.Find,    *)
(* falls back to license.Find on the translated module, records a new      *)
(* cache entry, and reports Finish.  The shared variables count,           *)
(* cacheData and cacheDataLookup are accessed without any lock, so every   *)
(* access to them is a step of its own.                                    *)
(***************************************************************************)
EXTENDS Integers, Sequences, FiniteSets, TLC

(***************************************************************************)
(* Bounds of the model.                                                    *)
(***************************************************************************)
MaxMods == 2          \* size of the module set drawn by Init
MaxTime == 2          \* the wall clock stops advancing here
StressMods == 7       \* size of the module set of the stress run

(***************************************************************************)
(* Program constants.                                                      *)
(***************************************************************************)
CountLimit == 5       \* line 306: if count > 5 { break }
SemSizeLoop == CountLimit + 1  \* one slot for every goroutine the loop can start
SemSize == 5          \* line 223: NewSemaphore(5)

(***************************************************************************)
(* Values.                                                                 *)
(***************************************************************************)
Paths == {"pa", "pb"}

Module(p, v, h) == [path |-> p, version |-> v, hash |-> h]

\* *license.License; NilLic stands for the nil pointer
License(n, s) == [name |-> n, spdx |-> s]
NilLic == License("<nil>", "<nil>")
MIT == License("MIT License", "MIT")
BSD == License("BSD 3-Clause", "BSD-3-Clause")
ISC == License("ISC License", "ISC")

moduleVersionLicense(v, l, h, c, u) ==
    [version |-> v, license |-> l.name, spdx |-> l.spdx, hash |-> h,
     created |-> c, used |-> u]

cachedModule(p, vl) == [path |-> p, verlic |-> vl]

\* outcome of one license.Find call: (lic, err)
Outcome(l, e) == [lic |-> l, err |-> e]
Outcomes == {Outcome(MIT, FALSE), Outcome(NilLic, FALSE), Outcome(NilLic, TRUE)}

\* license.Translate: the translator chain rewrites the module's path and
\* leaves version and hash alone; it never fails
TranslatePath(p) == IF p = "pb" THEN "pa" ELSE p
Translate(m) == [m EXCEPT !.path = TranslatePath(m.path)]

VARIABLES
    flagCache,        \* -cache given
    mods,             \* the deduplicated module list, in iteration order
    finder,           \* what the finder chain answers for a path
    loaded,           \* the cache file as read at startup
    loadErr,          \* readFile has printed an error of os.Open or json.Unmarshal
    run,              \* 1: first invocation, 2: second invocation on the same input
    prev,             \* the Finish events of the first invocation
    cacheData,        \* cacheData.Modules
    cacheDataLookup,  \* path -> position in cacheData.Modules of the entry
                      \* whose VerLic backing array the map value shares; 0: no key
    file,             \* the cache file as written by the save step
    saved,            \* the save step has written the file
    now,              \* wall clock
    ctx,              \* realMain's ctx: the goroutine whose listener it carries; 0: none
    count, wg, sem,   \* realMain's count, the WaitGroup counter, slots in use
    pcMain, next,     \* position of the main goroutine, next index into mods
    pc,               \* position of each module goroutine
    lic, err,         \* locals of each module goroutine
    index,            \* local: position of the matching sub-record
    creg,             \* local: value of count read by count++
    newVerLic,        \* local: the sub-record being inserted
    snap,             \* local: cacheData.Modules as read by append
    started, finished,\* Start / Finish events delivered to the sink
    finds, translates \* number of license.Find / license.Translate calls

vars == <<flagCache, mods, finder, loaded, loadErr, run, prev, cacheData, cacheDataLookup, file, saved, now,
          ctx, count, wg, sem, pcMain, next, pc, lic, err, index, creg, newVerLic,
          snap, started, finished, finds, translates>>

env == <<flagCache, mods, finder, loaded, loadErr, run, prev>>
mainVars == <<count, wg, pcMain, next, ctx>>
cacheVars == <<cacheData, cacheDataLookup>>
events == <<started, finished>>
locals == <<lic, err, index, creg, newVerLic, snap>>

Tasks == 1..Len(mods)
NoVerLic == moduleVersionLicense("", NilLic, "", 0, 0)

\* time.Now() returns the clock, which has advanced by the next call
Tick(t) == IF t < MaxTime THEN t + 1 ELSE t

\* the process is alive: no os.Exit, no fatal error, no return from realMain
Running == pcMain \in {"loop", "check", "wait", "save", "close"}

(***************************************************************************)
(* readFile: build cacheDataLookup from cacheData.Modules; a later entry   *)
(* with the same path overwrites an earlier one.                           *)
(***************************************************************************)
RECURSIVE LookupOf(_, _, _)
LookupOf(modules, i, lookup) ==
    IF i > Len(modules) THEN lookup
    ELSE LookupOf(modules, i + 1, [lookup EXCEPT ![modules[i].path] = i])

readFile(modules) == LookupOf(modules, 1, [p \in Paths |-> 0])

(***************************************************************************)
(* The loop over cca.VerLic of the cache check.  Returns exit (os.Exit(1)) *)
(* as soon as a sub-record has the module's version and another hash;      *)
(* otherwise found and index of the last sub-record with the version.      *)
(***************************************************************************)
RECURSIVE ScanVerLic(_, _, _, _, _)
ScanVerLic(verlic, m, vvk, found, idx) ==
    IF vvk > Len(verlic) THEN [exit |-> FALSE, found |-> found, index |-> idx]
    ELSE IF verlic[vvk].version = m.version
         THEN IF verlic[vvk].hash # m.hash
              THEN [exit |-> TRUE, found |-> found, index |-> idx]
              ELSE ScanVerLic(verlic, m, vvk + 1, TRUE, vvk)
         ELSE ScanVerLic(verlic, m, vvk + 1, found, idx)

\* the VerLic slice seen through cacheDataLookup[p]
LookupVerLic(p) ==
    IF cacheDataLookup[p] = 0 THEN <<>> ELSE cacheData[cacheDataLookup[p]].verlic

CacheCheck(m) == ScanVerLic(LookupVerLic(m.path), m, 1, FALSE, 0)

\* ccc.VerLic[index].LastUsed = t, seen through every copy of the slice header
SetLastUsed(modules, e, k, t) ==
    IF e \in 1..Len(modules) /\ k \in 1..Len(modules[e].verlic)
    THEN [modules EXCEPT ![e].verlic[k].used = t]
    ELSE modules

(***************************************************************************)
(* Initial states.                                                         *)
(***************************************************************************)
ModuleUniverse ==
    << Module("pa", "v1", "h1"), Module("pa", "v2", "h1"),
       Module("pb", "v1", "h1"), Module("pa", "v1", "h2") >>

ModuleLists ==
    { SelectSeq(ModuleUniverse, LAMBDA m : m \in S) :
        S \in { T \in SUBSET { ModuleUniverse[i] : i \in 1..Len(ModuleUniverse) } :
                  Cardinality(T) \in 1..MaxMods } }

\* sub-record lists of a loaded cache entry: one sub-record per version
Cached(v) == moduleVersionLicense(v, IF v = "v1" THEN BSD ELSE ISC, "h1", 0, 1)
VerLicLists(p) ==
    IF p = "pa"
    THEN { <<Cached("v1")>>, <<Cached("v2")>>, <<Cached("v1"), Cached("v2")>> }
    ELSE { <<Cached("v1")>> }

EntryChoices(p) == {<<>>} \cup { <<cachedModule(p, vl)>> : vl \in VerLicLists(p) }

\* loaded caches: at most one entry per path
LoadedCaches == { a \o b : a \in EntryChoices("pa"), b \in EntryChoices("pb") }

(***************************************************************************)
(* lines 61-80: os.Open, ioutil.ReadAll and json.Unmarshal into cacheData.  *)
(* A file that is absent gives no bytes, and json.Unmarshal checks the      *)
(* syntax of its input before it decodes anything: in both cases cacheData  *)
(* stays empty.  A well-formed file with a value of the wrong type (here a  *)
(* number as the spdx of the first sub-record) is decoded with that field   *)
(* skipped, and json.Unmarshal returns the type error afterwards.  No error *)
(* makes readFile return early.                                            *)
(***************************************************************************)
SkipFirstSpdx(content) ==
    IF content = <<>> THEN content ELSE [content EXCEPT ![1].verlic[1].spdx = ""]

Unmarshal(kind, content) ==
    CASE kind = "ok" -> [modules |-> content, err |-> FALSE]
      [] kind = "type" -> [modules |-> SkipFirstSpdx(content), err |-> TRUE]
      [] OTHER -> [modules |-> <<>>, err |-> TRUE]

FailingKinds == {"absent", "syntax", "type"}

\* finder chains: every answer for every path
AllFinders == [Paths -> Outcomes]

\* finder chains that know a license for at least one path
Finders == { f \in AllFinders : \E p \in Paths : f[p].lic # NilLic }

\* the state at line 222 after readFile has decoded the cache file into dec
InitWith(ms, fc, dec, f, t0) ==
    /\ mods = ms
    /\ flagCache = fc
    /\ finder = f
    /\ loaded = dec.modules
    /\ loadErr = dec.err
    /\ run = 1
    /\ prev = [t \in 1..Len(ms) |-> <<>>]
    /\ cacheData = dec.modules
    /\ cacheDataLookup = readFile(dec.modules)
    /\ file = <<>>
    /\ saved = FALSE
    /\ now = t0
    /\ ctx = 0
    /\ count = 0
    /\ wg = 0
    /\ sem = 0
    /\ pcMain = "loop"
    /\ next = 1
    /\ pc = [t \in 1..Len(ms) |-> "none"]
    /\ lic = [t \in 1..Len(ms) |-> NilLic]
    /\ err = [t \in 1..Len(ms) |-> FALSE]
    /\ index = [t \in 1..Len(ms) |-> 0]
    /\ creg = [t \in 1..Len(ms) |-> 0]
    /\ newVerLic = [t \in 1..Len(ms) |-> NoVerLic]
    /\ snap = [t \in 1..Len(ms) |-> <<>>]
    /\ started = [t \in 1..Len(ms) |-> 0]
    /\ finished = [t \in 1..Len(ms) |-> <<>>]
    /\ finds = [t \in 1..Len(ms) |-> 0]
    /\ translates = [t \in 1..Len(ms) |-> 0]

\* a run whose cache file, if any, decodes without error into content
InitRun(ms, fc, content, f, t0) == InitWith(ms, fc, Unmarshal("ok", content), f, t0)

\* the runs on the module lists with a finder chain of fs, without a cache
\* and with a cache of cs
InitOver(fs, cs) ==
    \E ms \in ModuleLists, f \in fs :
        \/ InitRun(ms, FALSE, <<>>, f, 1)
        \/ \E content \in cs : InitRun(ms, TRUE, content, f, 1)

Init == InitOver(Finders, LoadedCaches)

(***************************************************************************)
(* The core of these runs.  The cache is one that earlier runs have built  *)
(* up by inserting pa/v1, pa/v2 and pb/v1 in this order; the finder chain  *)
(* knows a license for one of the two paths and answers not found or error *)
(* for the other.                                                          *)
(***************************************************************************)
FullCache ==
    << cachedModule("pa", <<Cached("v1"), Cached("v2")>>),
       cachedModule("pb", <<Cached("v1")>>) >>

GrownCaches ==
    { <<>>, <<cachedModule("pa", <<Cached("v1")>>)>>, SubSeq(FullCache, 1, 1), FullCache }

CoreFinders ==
    { f \in Finders : f["pa"].lic = NilLic \/ f["pb"].lic = NilLic }

InitCore == InitOver(CoreFinders, GrownCaches)

(***************************************************************************)
(* The stress run: more modules than semaphore slots, every module in the  *)
(* loaded cache under one path, one sub-record per version, started when   *)
(* the clock has reached MaxTime; next to it the runs on a single module.  *)
(***************************************************************************)
Ver(i) == "v" \o ToString(i)

StressModules == [i \in 1..StressMods |-> Module("pa", Ver(i), "h1")]

StressCache == << cachedModule("pa", [i \in 1..StressMods |-> Cached(Ver(i))]) >>

InitStress ==
    \/ \E f \in Finders : f["pa"].lic # NilLic /\ f["pb"].lic # NilLic
                          /\ InitRun(StressModules, TRUE, StressCache, f, MaxTime)
    \/ \E ms \in ModuleLists, f \in Finders :
         /\ Len(ms) = 1
         /\ \/ InitRun(ms, FALSE, <<>>, f, 1)
            \/ \E content \in LoadedCaches : InitRun(ms, TRUE, content, f, 1)

(***************************************************************************)
(* The main goroutine.                                                     *)
(***************************************************************************)
\* lines 225-228: count++; wg.Add(1); go func(m)
Spawn ==
    /\ pcMain = "loop"
    /\ next <= Len(mods)
    /\ count' = count + 1
    /\ wg' = wg + 1
    /\ pc' = [pc EXCEPT ![next] = "acquire"]
    /\ next' = next + 1
    /\ pcMain' = "check"
    /\ UNCHANGED <<env, ctx, cacheVars, file, saved, now, sem, locals, events, finds, translates>>

\* lines 306-309: if count > 5 { break }, else the next module if any
LoopCheck ==
    /\ pcMain = "check"
    /\ pcMain' = IF count > CountLimit \/ next > Len(mods) THEN "wait" ELSE "loop"
    /\ UNCHANGED <<env, ctx, cacheVars, file, saved, now, count, wg, next, sem, pc,
                   locals, events, finds, translates>>

\* a main goroutine that goes on without waiting for the counter to reach 0
WaitNoBarrier ==
    /\ pcMain = "wait"
    /\ pcMain' = IF flagCache THEN "save" ELSE "close"
    /\ UNCHANGED <<env, ctx, cacheVars, file, saved, now, count, wg, next, sem, pc,
                   locals, events, finds, translates>>

\* line 312: wg.Wait()
Wait ==
    /\ pcMain = "wait"
    /\ wg = 0
    /\ pcMain' = IF flagCache THEN "save" ELSE "close"
    /\ UNCHANGED <<env, ctx, cacheVars, file, saved, now, count, wg, next, sem, pc,
                   locals, events, finds, translates>>

\* lines 316-320: json.Marshal(cacheData); ioutil.WriteFile
Save ==
    /\ pcMain = "save"
    /\ file' = cacheData
    /\ saved' = TRUE
    /\ pcMain' = "close"
    /\ UNCHANGED <<env, ctx, cacheVars, now, count, wg, next, sem, pc,
                   locals, events, finds, translates>>

\* lines 321-323: WriteFile failed, log.Fatal
SaveFail ==
    /\ pcMain = "save"
    /\ pcMain' = "savefail"
    /\ UNCHANGED <<env, ctx, cacheVars, file, saved, now, count, wg, next, sem, pc,
                   locals, events, finds, translates>>

\* lines 327-333: out.Close() and return
Close ==
    /\ pcMain = "close"
    /\ pcMain' = "exit"
    /\ UNCHANGED <<env, ctx, cacheVars, file, saved, now, count, wg, next, sem, pc,
                   locals, events, finds, translates>>

(***************************************************************************)
(* The goroutine of module mods[t], lines 228-304.                         *)
(***************************************************************************)
\* Semaphore.Acquire blocks while all slots are taken
SemAcquire == sem < SemSize /\ sem' = sem + 1

\* Semaphore.Release frees one slot
SemRelease == sem' = sem - 1

\* line 232: sem.Acquire()
Acquire(t) ==
    /\ Running
    /\ pc[t] = "acquire"
    /\ SemAcquire
    /\ pc' = [pc EXCEPT ![t] = "start"]
    /\ UNCHANGED <<env, cacheVars, file, saved, now, mainVars, locals, events,
                   finds, translates>>

\* lines 236-242: realMain's ctx becomes a context that carries listener l,
\* out.Start(&m), then the branch on flagCache
StartWith(t, l) ==
    /\ Running
    /\ pc[t] = "start"
    /\ ctx' = l
    /\ started' = [started EXCEPT ![t] = @ + 1]
    /\ pc' = [pc EXCEPT ![t] = IF flagCache THEN "lookup" ELSE "count"]
    /\ UNCHANGED <<env, cacheVars, file, saved, now, count, wg, pcMain, next, sem,
                   locals, finished, finds, translates>>

\* lines 239-242.  ctx is read by license.Find and license.Translate only, to
\* deliver status events; the specifications that do not follow the listener
\* leave it as it is.
Start(t) == StartWith(t, ctx)

\* lines 236-242: ctx = license.StatusWithContext(ctx, StatusListener(out, &m))
\* assigns the variable of realMain that all goroutines share
StartListening(t) == StartWith(t, t)

\* lines 244-258: cca, ok := cacheDataLookup[m.Path] and the loop over
\* cca.VerLic (result r); os.Exit(1) on a sub-record with the version and
\* another hash
LookupWith(t, r) ==
    /\ Running
    /\ pc[t] = "lookup"
    /\ IF r.exit
       THEN /\ pcMain' = "aborted"
            /\ pc' = [pc EXCEPT ![t] = "exited"]
            /\ UNCHANGED index
       ELSE IF cacheDataLookup[mods[t].path] # 0 /\ r.found
       THEN /\ index' = [index EXCEPT ![t] = r.index]
            /\ pc' = [pc EXCEPT ![t] = "touch"]
            /\ UNCHANGED pcMain
       ELSE /\ pc' = [pc EXCEPT ![t] = "count"]
            /\ UNCHANGED <<pcMain, index>>
    /\ UNCHANGED <<env, ctx, cacheVars, file, saved, now, count, wg, next, sem,
                   lic, err, creg, newVerLic, snap, events, finds, translates>>

\* the lookup without the hash comparison of line 250
LookupNoExit(t) ==
    LET vl == LookupVerLic(mods[t].path)
        ks == { k \in 1..Len(vl) : vl[k].version = mods[t].version }
    IN LookupWith(t, [exit |-> FALSE, found |-> ks # {},
                      index |-> IF ks = {} THEN 0
                                ELSE CHOOSE k \in ks : \A j \in ks : j <= k])

Lookup(t) == LookupWith(t, CacheCheck(mods[t]))

\* lines 259-262: the cache hit on sub-record k of the entry.  LastUsed is
\* written into the backing array that cacheData.Modules and every copy of
\* it share; lic is built from sub-record j.
TouchWith(t, k, j) ==
    /\ Running
    /\ pc[t] = "touch"
    /\ LET e == cacheDataLookup[mods[t].path]
           vv == cacheData[e].verlic[j]
       IN /\ now' = Tick(now)
          /\ cacheData' = SetLastUsed(cacheData, e, k, now)
          /\ snap' = [u \in Tasks |-> SetLastUsed(snap[u], e, k, now)]
          /\ lic' = [lic EXCEPT ![t] = License(vv.license, vv.spdx)]
    /\ index' = [index EXCEPT ![t] = 0]
    /\ pc' = [pc EXCEPT ![t] = "finish"]
    /\ UNCHANGED <<env, cacheDataLookup, file, saved, mainVars, sem, err, creg,
                   newVerLic, events, finds, translates>>

\* the hit that stamps the entry's first sub-record
TouchStamp(t) == TouchWith(t, 1, index[t])

\* the hit that reports the license of the entry's first sub-record
TouchFirst(t) == TouchWith(t, index[t], 1)

Touch(t) == TouchWith(t, index[t], index[t])

\* lines 264 and 295: count++, the read of the unsynchronised counter
CountRead(t) ==
    /\ Running
    /\ pc[t] = "count"
    /\ creg' = [creg EXCEPT ![t] = count]
    /\ pc' = [pc EXCEPT ![t] = "countw"]
    /\ UNCHANGED <<env, cacheVars, file, saved, now, mainVars, sem, lic, err,
                   index, newVerLic, snap, events, finds, translates>>

\* lines 264 and 295: count++, the write
CountWrite(t) ==
    /\ Running
    /\ pc[t] = "countw"
    /\ count' = creg[t] + 1
    /\ creg' = [creg EXCEPT ![t] = 0]
    /\ pc' = [pc EXCEPT ![t] = "find"]
    /\ UNCHANGED <<env, ctx, cacheVars, file, saved, now, wg, pcMain, next, sem, lic,
                   err, index, newVerLic, snap, events, finds, translates>>

\* a goroutine that always goes on to the insert
AfterFindInsert == "insert"

\* where a goroutine goes after its last Find
AfterFind == IF flagCache THEN "insert" ELSE "finish"

\* retrying only when there is neither a license nor an error
RetryTranslatedNone(o) == o.lic = NilLic /\ ~o.err

\* lines 268 and 299: if lic == nil || err != nil
RetryTranslated(o) == o.lic = NilLic \/ o.err

\* lines 267-268 and 298-299: lic, err = license.Find(ctx, m, fs)
Find(t) ==
    /\ Running
    /\ pc[t] = "find"
    /\ LET o == finder[mods[t].path] IN
         /\ lic' = [lic EXCEPT ![t] = o.lic]
         /\ err' = [err EXCEPT ![t] = o.err]
         /\ pc' = [pc EXCEPT ![t] =
                     IF RetryTranslated(o) THEN "find2" ELSE AfterFind]
    /\ finds' = [finds EXCEPT ![t] = @ + 1]
    /\ UNCHANGED <<env, cacheVars, file, saved, now, mainVars, sem, index, creg,
                   newVerLic, snap, events, translates>>

\* lines 269 and 300: lic, err = license.Find(ctx, license.Translate(ctx, m, ts), fs)
Find2(t) ==
    /\ Running
    /\ pc[t] = "find2"
    /\ LET o == finder[Translate(mods[t]).path] IN
         /\ lic' = [lic EXCEPT ![t] = o.lic]
         /\ err' = [err EXCEPT ![t] = o.err]
    /\ translates' = [translates EXCEPT ![t] = @ + 1]
    /\ finds' = [finds EXCEPT ![t] = @ + 1]
    /\ pc' = [pc EXCEPT ![t] = AfterFind]
    /\ UNCHANGED <<env, cacheVars, file, saved, now, mainVars, sem, index, creg,
                   newVerLic, snap, events>>

\* lines 272-290: build newVerLic; with the path in cacheDataLookup the
\* sub-record is appended to the local copy c2 only, otherwise
\* cacheData.Modules is read for the append
InsertIf(t, ok) ==
    /\ Running
    /\ pc[t] = "insert"
    /\ IF ok
       THEN /\ now' = Tick(Tick(now))
            /\ IF cacheDataLookup[mods[t].path] # 0
               THEN /\ pc' = [pc EXCEPT ![t] = "finish"]
                    /\ UNCHANGED <<newVerLic, snap>>
               ELSE /\ newVerLic' = [newVerLic EXCEPT ![t] =
                          moduleVersionLicense(mods[t].version, lic[t],
                                               mods[t].hash, now, Tick(now))]
                    /\ snap' = [snap EXCEPT ![t] = cacheData]
                    /\ pc' = [pc EXCEPT ![t] = "append"]
       ELSE /\ pc' = [pc EXCEPT ![t] = "finish"]
            /\ UNCHANGED <<now, newVerLic, snap>>
    /\ UNCHANGED <<env, cacheVars, file, saved, mainVars, sem, lic, err, index,
                   creg, events, finds, translates>>

\* the insert that looks at err only
InsertNoErr(t) == InsertIf(t, ~err[t])

\* line 272: if lic != nil && err == nil
Insert(t) == InsertIf(t, lic[t] # NilLic /\ ~err[t])

\* line 290: cacheData.Modules = append(cacheData.Modules, newMod), the write
AppendModule(t) ==
    /\ Running
    /\ pc[t] = "append"
    /\ cacheData' = Append(snap[t], cachedModule(mods[t].path, <<newVerLic[t]>>))
    /\ snap' = [snap EXCEPT ![t] = <<>>]
    /\ newVerLic' = [newVerLic EXCEPT ![t] = NoVerLic]
    /\ pc' = [pc EXCEPT ![t] = "finish"]
    /\ UNCHANGED <<env, cacheDataLookup, file, saved, now, mainVars, sem, lic,
                   err, index, creg, events, finds, translates>>

\* line 303: out.Finish(&m, lic, err)
Finish(t) ==
    /\ Running
    /\ pc[t] = "finish"
    /\ finished' = [finished EXCEPT ![t] = Append(@, Outcome(lic[t], err[t]))]
    /\ pc' = [pc EXCEPT ![t] = "release"]
    /\ UNCHANGED <<env, cacheVars, file, saved, now, mainVars, sem, locals,
                   started, finds, translates>>

\* a goroutine that returns without giving its slot back
ReleaseNone(t) ==
    /\ Running
    /\ pc[t] = "release"
    /\ pc' = [pc EXCEPT ![t] = "wgdone"]
    /\ UNCHANGED <<env, cacheVars, file, saved, now, mainVars, sem, locals, events,
                   finds, translates>>

\* line 233: defer sem.Release()
Release(t) ==
    /\ Running
    /\ pc[t] = "release"
    /\ SemRelease
    /\ pc' = [pc EXCEPT ![t] = "wgdone"]
    /\ UNCHANGED <<env, cacheVars, file, saved, now, mainVars, locals, events,
                   finds, translates>>

\* line 229: defer wg.Done()
Done(t) ==
    /\ Running
    /\ pc[t] = "wgdone"
    /\ wg' = wg - 1
    /\ pc' = [pc EXCEPT ![t] = "done"]
    /\ UNCHANGED <<env, ctx, cacheVars, file, saved, now, count, pcMain, next, sem,
                   locals, events, finds, translates>>

\* the goroutine is about to read the map cacheDataLookup (lines 246, 259, 273)
AtMapAccess(u) ==
    \/ pc[u] \in {"lookup", "touch"}
    \/ pc[u] = "insert" /\ lic[u] # NilLic /\ ~err[u]

\* line 262 writes the map while another goroutine reads or writes it: the Go
\* runtime may stop the process with "fatal error: concurrent map read and
\* map write"
MapFault ==
    /\ Running
    /\ \E t, u \in Tasks : t # u /\ pc[t] = "touch" /\ AtMapAccess(u)
    /\ pcMain' = "crashed"
    /\ UNCHANGED <<env, ctx, cacheVars, file, saved, now, count, wg, next, sem, pc,
                   locals, events, finds, translates>>

TaskStep(t) ==
    \/ Acquire(t) \/ Start(t) \/ Lookup(t) \/ Touch(t)
    \/ CountRead(t) \/ CountWrite(t) \/ Find(t) \/ Find2(t)
    \/ Insert(t) \/ AppendModule(t) \/ Finish(t) \/ Release(t) \/ Done(t)

Next ==
    \/ Spawn \/ LoopCheck \/ Wait \/ Save \/ SaveFail \/ Close
    \/ \E t \in Tasks : TaskStep(t)
    \/ MapFault

Spec == Init /\ [][Next]_vars

SpecCore == InitCore /\ [][Next]_vars

(***************************************************************************)
(* Fair scheduling: the main goroutine and every module goroutine take     *)
(* their next step when it stays possible.  license.Find and               *)
(* license.Translate return, so Find and Find2 are steps like the others.  *)
(* The runtime's map check may or may not fire: no fairness for MapFault.  *)
(***************************************************************************)
MainStep == Spawn \/ LoopCheck \/ Wait \/ Save \/ SaveFail \/ Close

Fairness ==
    /\ WF_vars(MainStep)
    /\ \A t \in 1..MaxMods : WF_vars(t \in Tasks /\ TaskStep(t))

SpecFair == Spec /\ Fairness

(***************************************************************************)
(* The same program with the listener in ctx followed.                     *)
(***************************************************************************)
TaskStepListening(t) ==
    \/ Acquire(t) \/ StartListening(t) \/ Lookup(t) \/ Touch(t)
    \/ CountRead(t) \/ CountWrite(t) \/ Find(t) \/ Find2(t)
    \/ Insert(t) \/ AppendModule(t) \/ Finish(t) \/ Release(t) \/ Done(t)

NextListening ==
    \/ Spawn \/ LoopCheck \/ Wait \/ Save \/ SaveFail \/ Close
    \/ \E t \in Tasks : TaskStepListening(t)
    \/ MapFault

SpecListening == Init /\ [][NextListening]_vars

(***************************************************************************)
(* The second invocation of the program on the same input: realMain starts *)
(* over and readFile loads the file the first invocation has saved.  The   *)
(* file holds the JSON encoding of cacheData; its keys are the field names *)
(* used here, and decoding it gives the entries and sub-records back in    *)
(* the order they were written.                                            *)
(***************************************************************************)
Restart ==
    /\ pcMain = "exit"
    /\ run = 1
    /\ run' = 2
    /\ prev' = finished
    /\ loaded' = IF flagCache THEN file ELSE <<>>
    /\ loadErr' = FALSE
    /\ cacheData' = loaded'
    /\ cacheDataLookup' = readFile(loaded')
    /\ saved' = FALSE
    /\ ctx' = 0
    /\ count' = 0
    /\ wg' = 0
    /\ sem' = 0
    /\ pcMain' = "loop"
    /\ next' = 1
    /\ pc' = [t \in Tasks |-> "none"]
    /\ lic' = [t \in Tasks |-> NilLic]
    /\ err' = [t \in Tasks |-> FALSE]
    /\ index' = [t \in Tasks |-> 0]
    /\ creg' = [t \in Tasks |-> 0]
    /\ newVerLic' = [t \in Tasks |-> NoVerLic]
    /\ snap' = [t \in Tasks |-> <<>>]
    /\ started' = [t \in Tasks |-> 0]
    /\ finished' = [t \in Tasks |-> <<>>]
    /\ finds' = [t \in Tasks |-> 0]
    /\ translates' = [t \in Tasks |-> 0]
    /\ UNCHANGED <<flagCache, mods, finder, file, now>>

InitTwoRuns ==
    \E ms \in ModuleLists, f \in Finders, content \in LoadedCaches :
        InitRun(ms, TRUE, content, f, 1)

NextTwoRuns == Next \/ Restart

SpecTwoRuns == InitTwoRuns /\ [][NextTwoRuns]_vars

SpecStress == InitStress /\ [][Next]_vars

(***************************************************************************)
(* The runs of Init with every finder chain, those that find no license at *)
(* all included, and the run on the whole module universe without a cache, *)
(* with a finder chain that finds a license for pb only: every goroutine   *)
(* takes the branch of line 295.                                           *)
(***************************************************************************)
InitUniverse ==
    \/ InitOver(AllFinders, LoadedCaches)
    \/ \E f \in Finders :
         /\ f["pa"].lic = NilLic /\ f["pb"].lic # NilLic
         /\ InitRun(ModuleUniverse, FALSE, <<>>, f, MaxTime)

SpecUniverse == InitUniverse /\ [][Next]_vars

(***************************************************************************)
(* The runs with -cache whose cache file readFile could not open or decode. *)
(***************************************************************************)
InitLoadFailure ==
    \E ms \in ModuleLists, f \in Finders, kind \in FailingKinds, content \in LoadedCaches :
        InitWith(ms, TRUE, Unmarshal(kind, content), f, 1)

SpecLoadFailure == InitLoadFailure /\ [][Next]_vars

TypeOK ==
    /\ sem \in 0..SemSize
    /\ wg \in 0..Len(mods)
    /\ now \in 1..MaxTime

(***************************************************************************)
(* Properties.                                                             *)
(***************************************************************************)
\* goroutines between sem.Acquire and sem.Release
SlotHolders ==
    { t \in Tasks : pc[t] \in {"start", "lookup", "touch", "count", "countw", "find",
                                "find2", "insert", "append", "finish", "release"} }

\* the sub-records cacheDataLookup shows for m's path that carry m's version
SameVersion(m) ==
    { k \in 1..Len(LookupVerLic(m.path)) : LookupVerLic(m.path)[k].version = m.version }

HashMismatch(m) ==
    flagCache /\ \E k \in SameVersion(m) : LookupVerLic(m.path)[k].hash # m.hash

CacheHit(m) ==
    flagCache /\ \E k \in SameVersion(m) : LookupVerLic(m.path)[k].hash = m.hash

CacheMiss(m) == ~flagCache \/ SameVersion(m) = {}

PastLookup(t) == pc[t] \notin {"none", "acquire", "start", "lookup"}

Good(o) == o.lic # NilLic /\ ~o.err

\* modules has, under m's path, a sub-record for m's version with license l
\* and m's hash
Holds(modules, m, l) ==
    \E e \in 1..Len(modules) :
        /\ modules[e].path = m.path
        /\ \E k \in 1..Len(modules[e].verlic) :
             LET vv == modules[e].verlic[k] IN
               /\ vv.version = m.version /\ vv.hash = m.hash
               /\ vv.license = l.name /\ vv.spdx = l.spdx

\* the goroutine of mods[t] has reported a record without error
Resolved(t) == Len(finished[t]) = 1 /\ Good(finished[t][1])

\* C1: when realMain returns, every module of the input set has had its
\* goroutine created and exactly one Finish event reported.
C1_EveryModuleFinishedOnce ==
    pcMain = "exit" => \A t \in Tasks : pc[t] # "none" /\ Len(finished[t]) = 1

\* C2: at most 5 goroutines are between sem.Acquire and sem.Release.
C2_AtMostFiveSlotHolders == Cardinality(SlotHolders) <= 5

C2_Witness ==
    /\ Cardinality(SlotHolders) = 5
    /\ \E t \in Tasks : pc[t] = "acquire"

\* C3: once a goroutine has seen, for its module, a cached sub-record with the
\* module's version and another hash, the process has exited: the cache was
\* not saved before and nothing (save, close, return) happens afterwards.
C3_MismatchAborts ==
    \A t \in Tasks :
        HashMismatch(mods[t]) /\ PastLookup(t)
            => pc[t] = "exited" /\ pcMain = "aborted" /\ ~saved

C3_Witness ==
    \E t, u \in Tasks :
        /\ pc[t] = "exited" /\ pcMain = "aborted"
        /\ pc[u] \in {"touch", "find", "insert", "finish"}

Expected(m) ==
    IF Good(finder[m.path]) THEN finder[m.path] ELSE finder[Translate(m).path]

\* C5: a module not served from the cache is reported with Find(M) when that
\* is a record without error and with Find(Translate(M)) otherwise; Translate
\* is called only after the direct Find gave no record or an error; Find is
\* called at most twice.
C5_DirectThenTranslated ==
    \A t \in Tasks :
        CacheMiss(mods[t]) =>
            /\ \A i \in 1..Len(finished[t]) : finished[t][i] = Expected(mods[t])
            /\ finds[t] <= 2
            /\ translates[t] > 0 =>
                 /\ translates[t] = 1 /\ finds[t] = 2
                 /\ ~Good(finder[mods[t].path])

C5_Witness ==
    \E t, u \in Tasks :
        /\ CacheMiss(mods[t]) /\ CacheMiss(mods[u])
        /\ translates[t] = 1 /\ finished[t] = <<Outcome(MIT, FALSE)>>
        /\ translates[u] = 0 /\ finished[u] = <<Outcome(MIT, FALSE)>>

\* C6: the saved cache holds a sub-record (version, license, SPDX, hash) under
\* M.path for every module M whose path was not in the loaded cache and that
\* was resolved without error.
C6_NoInsertLost ==
    saved =>
        \A t \in Tasks :
            cacheDataLookup[mods[t].path] = 0 /\ Resolved(t)
                => Holds(file, mods[t], finished[t][1].lic)

\* C7: the saved cache holds the new sub-record of a resolved module M in the
\* loaded entry of M.path, when that entry had only other versions.
C7_AppendedToExistingEntry ==
    saved =>
        \A t \in Tasks :
            cacheDataLookup[mods[t].path] # 0 /\ SameVersion(mods[t]) = {} /\ Resolved(t)
                => Holds(<<file[cacheDataLookup[mods[t].path]]>>, mods[t],
                         finished[t][1].lic)

\* at most one sub-record per path and version, over all entries of the path
OnePerVersion(modules) ==
    \A e1, e2 \in 1..Len(modules) :
        \A k1 \in 1..Len(modules[e1].verlic), k2 \in 1..Len(modules[e2].verlic) :
            /\ modules[e1].path = modules[e2].path
            /\ modules[e1].verlic[k1].version = modules[e2].verlic[k2].version
            => e1 = e2 /\ k1 = k2

\* C9: the cache, in memory and as saved, has at most one sub-record per path
\* and version.
C9_OneSubRecordPerVersion == OnePerVersion(cacheData) /\ OnePerVersion(file)

\* goroutines inside a read-modify-write of the cache: between the read of
\* cacheDataLookup and the write of line 262, or between the read and the
\* write of cacheData.Modules of line 290
InCacheSection == { t \in Tasks : pc[t] \in {"touch", "append"} }

\* C10: no two goroutines are inside a cache read-modify-write at once.
C10_ExclusiveCacheAccess == Cardinality(InCacheSection) <= 1

\* C8: in the second invocation, started from the cache the first one saved
\* and without hash mismatch, every module is reported with the license of
\* the first invocation, and no Find is called for a module that the first
\* invocation resolved and whose sub-record is in the saved cache.
C8_SecondRunIdempotent ==
    run = 2 /\ (\A u \in Tasks : ~HashMismatch(mods[u])) =>
        \A t \in Tasks :
            /\ Len(finished[t]) = 1 /\ Len(prev[t]) = 1
                 => finished[t][1].lic = prev[t][1].lic
            /\ Len(prev[t]) = 1 /\ Good(prev[t][1])
                 /\ Holds(loaded, mods[t], prev[t][1].lic)
                 => finds[t] = 0

\* the goroutines go func(m) has created
Created == { t \in Tasks : pc[t] # "none" }

\* the goroutine has reported Finish and has run its deferred wg.Done()
Completed(t) == pc[t] = "done" /\ Len(finished[t]) = 1

\* C11: the cache save and the closing of the sink run only after every created
\* goroutine has reported its Finish and signalled the WaitGroup; a failed save
\* ends the process only after all those Finish events.
C11_SaveAndCloseAfterAllTasks ==
    pcMain \in {"save", "close", "exit", "savefail"} \/ saved
        => \A t \in Created : Completed(t)

C11_Witness ==
    /\ pcMain = "savefail"
    /\ Cardinality(Created) = MaxMods
    /\ \A t \in Created : Completed(t)

\* C12: a module for which the direct or the translated Find returned an error
\* and neither returned a record is reported with an error.
C12_FinderErrorReported ==
    \A t \in Tasks :
        LET direct == finder[mods[t].path]
            translated == finder[Translate(mods[t]).path]
        IN /\ CacheMiss(mods[t]) /\ Len(finished[t]) = 1
           /\ direct.err \/ translated.err
           /\ direct.lic = NilLic /\ translated.lic = NilLic
           => finished[t][1].err

\* what the goroutine of mods[t] reports when no other module is in the run
Alone(t) ==
    IF CacheHit(mods[t])
    THEN LET vv == LookupVerLic(mods[t].path)[CHOOSE k \in SameVersion(mods[t]) : TRUE]
         IN Outcome(License(vv.license, vv.spdx), FALSE)
    ELSE Expected(mods[t])

\* the goroutine of mods[t] has reported that no license was found
Failed(t) == Len(finished[t]) = 1 /\ finished[t][1].lic = NilLic

\* C13: in a run where the Finder found nothing for some module (error or not
\* found), the process ends early only by a hash mismatch, and when realMain
\* returns every other module has its Finish event, with the outcome it has
\* when run alone.
C13_FinderFailureIsLocal ==
    \A t \in Tasks :
        Failed(t) =>
            /\ pcMain \in {"aborted", "crashed"} => \E u \in Tasks : pc[u] = "exited"
            /\ pcMain = "exit" =>
                 \A u \in Tasks \ {t} : finished[u] = <<Alone(u)>>

\* C14: after readFile has reported an error the run is not aborted, every
\* goroutine finds an empty cache and reports what the Finder gave, and the
\* cache is saved before realMain returns with every module reported.
C14_LoadFailureMeansEmptyCache ==
    loadErr =>
        /\ pcMain # "aborted"
        /\ \A t \in Tasks :
             /\ PastLookup(t) => LookupVerLic(mods[t].path) = <<>>
             /\ Len(finished[t]) = 1 => finds[t] >= 1
        /\ pcMain = "exit" => saved /\ \A t \in Tasks : Len(finished[t]) = 1

\* the goroutine has done some of its work: Start, cache access, Find, Translate
AtWork(t) ==
    \/ started[t] > 0 \/ finds[t] > 0 \/ translates[t] > 0
    \/ pc[t] \in {"lookup", "touch", "count", "countw", "find", "find2", "insert",
                  "append", "finish"}

\* C15: a goroutine holds a slot from before its Start event and all its cache,
\* Find and Translate work until before its wg.Done(); the slots in use are
\* those of the goroutines in between, one each (as long as no goroutine has
\* ended the process inside its work), and none is in use once wg.Wait() has
\* returned.
C15_SlotHeldAroundWork ==
    /\ pcMain # "aborted" => sem = Cardinality(SlotHolders)
    /\ \A t \in Tasks :
         /\ AtWork(t) => pc[t] \notin {"none", "acquire"}
         /\ pc[t] \in {"wgdone", "done"} => t \notin SlotHolders /\ Len(finished[t]) = 1
    /\ pcMain \in {"save", "close", "exit", "savefail"} => sem = 0

C15_Witness ==
    /\ pcMain = "close"
    /\ sem = 0
    /\ Cardinality(Created) = MaxMods
    /\ \A t \in Created : started[t] = 1 /\ pc[t] = "done"

\* the step of lines 259-262 by the goroutine of mods[t]
HitStep(t) == pc[t] = "touch" /\ pc'[t] = "finish"

\* C16: the step of a cache hit changes, in the whole cache, only LastUsed of
\* the sub-record with the module's version, to the current time; no other
\* step changes an entry of the loaded cache; and the save writes the cache as
\* it then is, so the refreshed LastUsed is the saved one.
C16_HitRefreshesLastUsedOnly ==
    [][ /\ \A t \in Tasks :
             HitStep(t) =>
                 LET e == cacheDataLookup[mods[t].path]
                     k == CHOOSE k \in SameVersion(mods[t]) : TRUE
                 IN /\ cacheData' = [cacheData EXCEPT ![e].verlic[k].used = now]
                    /\ cacheDataLookup' = cacheDataLookup
                    /\ file' = file
        /\ (\A t \in Tasks : ~HitStep(t)) =>
               SubSeq(cacheData', 1, Len(loaded)) = SubSeq(cacheData, 1, Len(loaded))
        /\ saved' /\ ~saved => file' = cacheData
      ]_vars

C16_Witness ==
    /\ saved
    /\ \E t \in Tasks :
         /\ CacheHit(mods[t])
         /\ LET e == cacheDataLookup[mods[t].path]
                k == CHOOSE k \in SameVersion(mods[t]) : TRUE
            IN /\ Len(loaded[e].verlic) = 2 /\ k = 2
               /\ file[e] = [loaded[e] EXCEPT !.verlic[k].used = MaxTime]

\* modules has, under m's path, a sub-record with m's version and hash
HasSubRecord(modules, m) ==
    \E e \in 1..Len(modules) :
        /\ modules[e].path = m.path
        /\ \E k \in 1..Len(modules[e].verlic) :
             modules[e].verlic[k].version = m.version /\ modules[e].verlic[k].hash = m.hash

\* C17: with -cache, a module that is not in the cache and for which neither
\* Find gives a record without error leaves the cache alone: its goroutine
\* never prepares or appends an entry, and neither the cache in memory nor the
\* saved one has a sub-record for it.
C17_FailedModuleNotInserted ==
    \A t \in Tasks :
        flagCache /\ CacheMiss(mods[t]) /\ ~Good(Expected(mods[t])) =>
            /\ pc[t] # "append" /\ newVerLic[t] = NoVerLic
            /\ ~HasSubRecord(cacheData, mods[t])
            /\ ~HasSubRecord(file, mods[t])

C17_Witness ==
    /\ saved
    /\ \E t, u \in Tasks :
         /\ CacheMiss(mods[t]) /\ finds[t] = 2 /\ Failed(t)
         /\ finished[t][1].err
         /\ Resolved(u) /\ HasSubRecord(file, mods[u]) /\ ~HasSubRecord(loaded, mods[u])

\* C18: without -cache no goroutine is ever at a cache access or at the hash
\* check's exit, cacheData and cacheDataLookup stay as they were before the
\* loop (empty), the save is never reached and no file is written.
C18_NoCacheNoCacheEffects ==
    ~flagCache =>
        /\ \A t \in Tasks : pc[t] \notin {"lookup", "touch", "insert", "append", "exited"}
        /\ cacheData = <<>> /\ \A p \in Paths : cacheDataLookup[p] = 0
        /\ \A t \in Tasks : newVerLic[t] = NoVerLic /\ snap[t] = <<>> /\ index[t] = 0
        /\ pcMain \notin {"aborted", "crashed", "save", "savefail"}
        /\ ~saved /\ file = <<>>

C18_Witness ==
    /\ ~flagCache
    /\ pcMain = "exit"
    /\ \E t, u \in Tasks :
         /\ started[t] = 1 /\ Resolved(t) /\ finds[t] = 1
         /\ started[u] = 1 /\ Failed(u) /\ finds[u] = 2

\* C19: the context a goroutine is about to pass to license.Find or
\* license.Translate carries the listener of its own module.
C19_OwnListenerInContext ==
    \A t \in Tasks : pc[t] \in {"find", "find2"} => ctx = t

\* the process has ended: return from realMain, log.Fatal of the failed save,
\* os.Exit(1) of the hash check
Exits == {"exit", "savefail", "aborted"}

\* C20: under fair scheduling every run ends in one of the three exits, and a
\* run that has passed wg.Wait() has all its created goroutines completed.
C20_EveryRunTerminates ==
    /\ <>(pcMain \in Exits)
    /\ [](pcMain \in {"save", "close", "exit", "savefail"}
            => \A t \in Created : Completed(t))

====
